---- MODULE Spec2Model ----
(***************************************************************************)
(* Model of src/index.js, the scheduled Fediverse image poster.            *)
(*                                                                         *)
(* JavaScript runs one callback at a time: a step of the model is one      *)
(* timer or I/O completion callback together with the synchronous code     *)
(* and promise continuations that follow it, up to the next I/O request.   *)
(* Every outcome of an I/O request (success, the error codes the code      *)
(* distinguishes) is a separate action.                                    *)
(***************************************************************************)
EXTENDS Integers, Sequences, FiniteSets, TLC

\* ---------------------------------------------------------------- bounds
MaxInFlight == 2      \* invocations of postNextImage that may be pending at once
MaxAdds == 1          \* entries an external actor drops into the image folder
MaxInitFiles == 2     \* entries in the image folder when the process starts

\* ------------------------------------------------- directory entry names
\* A name is its sequence of characters.
FA == <<"a", ".", "j", "p", "g">>       \* regular file a.jpg
FB == <<"b", ".", "P", "n", "G">>       \* regular file b.PnG
FC == <<"c", ".", "t", "x", "t">>       \* regular file c.txt
DG == <<"d", ".", "g", "i", "f">>       \* subdirectory named d.gif
DS == <<"g", "i", "f">>                 \* subdirectory named gif

Names == {FA, FB, FC, DG, DS}
Dirs == {DG, DS}
None == <<>>

\* String.prototype.toLowerCase on one character (the /i flag of the regex)
Lower(ch) ==
  CASE ch = "P" -> "p"
    [] ch = "N" -> "n"
    [] ch = "G" -> "g"
    [] ch = "J" -> "j"
    [] OTHER -> ch

LowerSeq(s) == [i \in 1..Len(s) |-> Lower(s[i])]

Tail_(s, n) == SubSeq(s, Len(s) - n + 1, Len(s))

\* the alternatives of the regular expression at index.js:44
extensions ==
  { <<"j", "p", "g">>, <<"j", "p", "e", "g">>, <<"p", "n", "g">>, <<"g", "i", "f">> }

\* /\.(jpg|jpeg|png|gif)$/.test(file), without the i flag
imageRegexCaseSensitive(file) ==
  \E e \in extensions :
    /\ Len(file) >= Len(e) + 1
    /\ Tail_(file, Len(e) + 1) = <<".">> \o e

\* the regular expression without its leading \. : any name ending in one of
\* the alternatives matches
imageRegexNoDot(file) ==
  \E e \in extensions :
    /\ Len(file) >= Len(e)
    /\ Tail_(LowerSeq(file), Len(e)) = e

\* /\.(jpg|jpeg|png|gif)$/i.test(file)
imageRegex(file) ==
  \E e \in extensions :
    /\ Len(file) >= Len(e) + 1
    /\ Tail_(LowerSeq(file), Len(e) + 1) = <<".">> \o e

\* files.filter(file => regex.test(file)): keeps the order of the listing
filterImages(files) == SelectSeq(files, imageRegex)

\* path.join(folder, name) and path.basename(p): a path is <<folder, name>>
imageFolderPath == "images"
postedFolderPath == "posted"
pathJoin(dir, name) == <<dir, name>>
basenameDir(p) == p[1]
basename(p) == p[2]

\* index.js:124 with the last entry removed instead of the one at the index
spliceLast(q, i) == IF Len(q) > 0 THEN SubSeq(q, 1, Len(q) - 1) ELSE q

\* Array.prototype.splice(i, 1) with a 0-based index; nothing is removed when
\* the index is past the end
splice(q, i) ==
  IF i < Len(q) THEN SubSeq(q, 1, i) \o SubSeq(q, i + 2, Len(q)) ELSE q

spliced(q, i) == IF i < Len(q) THEN q[i + 1] ELSE None

\* index.js:126-130 with the index advanced instead of wrapped
nextIndexAdvance(idx, len) == idx + 1

\* index.js:126-130
nextIndex(idx, len) == IF len = 0 THEN 0 ELSE idx % len

Range(s) == { s[i] : i \in 1..Len(s) }

\* The extension of a name, as the claims speak of it: the characters after
\* its last dot, none when the name has no dot.
DotPositions(f) == { i \in 1..Len(f) : f[i] = "." }
LastDot(f) == CHOOSE i \in DotPositions(f) : \A j \in DotPositions(f) : j <= i
ExtensionOf(f) ==
  IF DotPositions(f) = {} THEN None ELSE SubSeq(f, LastDot(f) + 1, Len(f))
AllowedExtensions ==
  { <<"j", "p", "g">>, <<"j", "p", "e", "g">>, <<"p", "n", "g">>, <<"g", "i", "f">> }
HasImageExtension(f) == LowerSeq(ExtensionOf(f)) \in AllowedExtensions

\* ------------------------------------------------------------------ state
VARIABLES
  imageFiles,     \* index.js:17, the work queue (sequence of names)
  currentIndex,   \* index.js:18, the cursor (0-based)
  srcDir,         \* listing of the image folder, in readdir order
  arcDir,         \* names present in the posted folder
  dirs,           \* which of the two folders exist
  task,           \* the pending invocations of postNextImage / start
  timerArmed,     \* setInterval has been called (index.js:144)
  proc,           \* "running" or "exited"
  exitCode,       \* exit status once exited, -1 while running
  ev,             \* history: what the last step did
  lateAdds,       \* history: names added while the queue was non-empty and
                  \* not drained since
  everCandidate,  \* history: the image folder has held a name the filter keeps
  adds,           \* external additions so far
  failed,         \* history: names whose attempt failed while the queue has
                  \* not been empty since
  lastListing,    \* history: the listing the last successful readdir returned
  archivedSince   \* history: names moved to the posted folder since then

vars == <<imageFiles, currentIndex, srcDir, arcDir, dirs, task, timerArmed,
          proc, exitCode, ev, lateAdds, everCandidate, adds, failed,
          lastListing, archivedSince>>

fsVars == <<srcDir, arcDir, dirs, everCandidate, adds>>

Slots == 1..MaxInFlight

IdleTask ==
  [pc |-> "idle", mode |-> "none", dir |-> "none", imagePath |-> None,
   mediaId |-> "none", present |-> FALSE, overlap |-> FALSE,
   ok |-> {}, uploads |-> 0, posts |-> 0, moves |-> 0, reattempt |-> FALSE]

NoEv(k) ==
  [io |-> k, kind |-> "run", sel |-> None, removed |-> None, stage |-> "none",
   mediaId |-> "none", present |-> FALSE, overlap |-> FALSE, mode |-> "none",
   ok |-> {}, uploads |-> 0, posts |-> 0, moves |-> 0]

\* the outcomes of a cycle in which the post was not created
FailedStages == {"readfail", "uploadfail", "idfail", "postfail"}

InFlight == { c \in Slots : task[c].pc # "idle" }

\* the errors the try/catch blocks of index.js swallow, by the place that
\* raised them: 47-49 (load), 70-73 (read), 99-105 (post), 58-60 (move)
caughtAllButLoad(site) == site # "load"

caught(site) == site \in {"load", "read", "post", "move"}

\* start() arms the timer when the awaited first cycle has returned
\* (index.js:141-144); the variant arms it when the first cycle begins
startArmsTimerEarly(mode, at) == mode = "first" /\ at = "begin"

startArmsTimer(mode, at) == mode = "first" /\ at = "return"

\* the catch of the file read without its return: the code goes on to the
\* upload with an empty form
afterReadErrorFallThrough == "upload"

\* the catch of the file read ends postImageToFediverse (index.js:72)
afterReadError == "return"

\* a timer that skips the tick while an invocation is pending
tickGuardSerial(pending) == pending = {}

\* setInterval calls postNextImage at every tick, whatever is pending
\* (index.js:144)
tickGuard(pending) == TRUE

\* a catch in loadImageFiles that empties the queue
queueAfterLoadErrorCleared(q) == <<>>

\* the catch in loadImageFiles only logs (index.js:47-49): the queue is as
\* it was
queueAfterLoadError(q) == q

\* fs.rename(imagePath, destinationPath), index.js:53-56
destinationPath(imagePath) == pathJoin(postedFolderPath, basename(imagePath))

\* the source listing after a rename that copies instead of moving
renameSourceKeep(listing, name) == listing

\* the source listing after fs.rename has moved name out of it
renameSource(listing, name) == SelectSeq(listing, LAMBDA x : x # name)

\* ---------------------------------------------------- shared continuations
Put(q, idx, t, armed, p, code, e) ==
  /\ imageFiles' = q
  /\ currentIndex' = idx
  /\ task' = t
  /\ timerArmed' = armed
  /\ proc' = p
  /\ exitCode' = code
  /\ ev' = e
  /\ lateAdds' = IF q = <<>> THEN {} ELSE lateAdds
  /\ failed' = IF q = <<>> \/ p = "exited" THEN {}
               ELSE IF e.kind = "return" /\ e.stage \in FailedStages
                    THEN failed \cup {e.sel} ELSE failed
  /\ lastListing' = IF e.io = "readdir_ok" THEN srcDir ELSE lastListing
  /\ archivedSince' = IF e.io = "readdir_ok" THEN {}
                      ELSE IF e.io = "rename_ok" THEN archivedSince \cup {e.sel}
                           ELSE archivedSince

\* an error leaves postNextImage or start: the promise is rejected with no
\* handler, which ends the node process with status 1
reject(c, q, k) ==
  Put(q, currentIndex, task, timerArmed, "exited", 1, NoEv(k))

\* index.js:119-121 up to the await inside postImageToFediverse (line 67)
selectImage(c, q, t, armed, k) ==
  IF currentIndex < Len(q)
  THEN LET f == q[currentIndex + 1] IN
       Put(q, currentIndex,
           [t EXCEPT ![c].pc = "readFile",
                     ![c].imagePath = pathJoin(imageFolderPath, f),
                     ![c].present = (f \in Range(srcDir)),
                     ![c].reattempt = (f \in failed)],
           armed, proc, exitCode, NoEv(k))
  ELSE reject(c, q, k)

\* postNextImage is called: index.js:108-121 up to its first await
beginCycle(c, q, mode, k) ==
  LET others == \E d \in Slots \ {c} : task[d].pc # "idle"
      t0 == [d \in Slots |->
               IF d # c /\ task[d].pc # "idle"
               THEN [task[d] EXCEPT !.overlap = TRUE] ELSE task[d]]
      me == [IdleTask EXCEPT !.mode = mode, !.overlap = others]
      armed == timerArmed \/ startArmsTimer(mode, "begin")
  IN IF Len(q) = 0
     THEN Put(q, currentIndex,
              [t0 EXCEPT ![c] = [me EXCEPT !.pc = "access", !.dir = imageFolderPath]],
              armed, proc, exitCode, NoEv(k))
     ELSE selectImage(c, q, [t0 EXCEPT ![c] = me], armed, k)

\* postNextImage returns; when start() awaited it, start() goes on to
\* setInterval (index.js:143-144)
return(c, q, idx, e) ==
  Put(q, idx, [task EXCEPT ![c] = IdleTask],
      timerArmed \/ startArmsTimer(task[c].mode, "return"),
      proc, exitCode, e)

\* loadImageFiles has returned to its caller: start() (index.js:138-141) or
\* postNextImage (index.js:112-117)
afterLoad(c, q, k) ==
  IF task[c].mode = "start"
  THEN beginCycle(c, q, "first", k)
  ELSE IF Len(q) = 0
       THEN return(c, q, currentIndex,
                   [NoEv(k) EXCEPT !.kind = "return", !.stage = "skip",
                                   !.mode = task[c].mode,
                                   !.overlap = task[c].overlap])
       ELSE selectImage(c, q, task, timerArmed, k)

\* an error inside loadImageFiles (index.js:47-49)
loadFail(c, k) ==
  IF caught("load") THEN afterLoad(c, queueAfterLoadError(imageFiles), k)
  ELSE reject(c, imageFiles, k)

\* postImageToFediverse has returned: index.js:123-131
finish(c, stage, k) ==
  LET q2 == splice(imageFiles, currentIndex)
      idx2 == nextIndex(currentIndex, Len(q2))
      e == [io |-> k, kind |-> "return",
            sel |-> basename(task[c].imagePath),
            removed |-> spliced(imageFiles, currentIndex),
            stage |-> stage,
            mediaId |-> task[c].mediaId,
            present |-> task[c].present,
            overlap |-> task[c].overlap,
            mode |-> task[c].mode,
            ok |-> task[c].ok \cup (IF stage = "moved" THEN {"move"} ELSE {})
                              \cup (IF stage = "idfail" THEN {"upload"} ELSE {}),
            uploads |-> task[c].uploads,
            posts |-> task[c].posts,
            moves |-> task[c].moves]
  IN return(c, q2, idx2, e)

\* an error inside postImageToFediverse, swallowed by the catch of its site
postFail(c, site, stage, k) ==
  IF caught(site) THEN finish(c, stage, k) ELSE reject(c, imageFiles, k)

\* the invocation goes on to its next I/O request
goto(c, t, k) ==
  Put(imageFiles, currentIndex, [task EXCEPT ![c] = t], timerArmed,
      proc, exitCode, NoEv(k))

\* ensureDirectoryExists(directory) has returned: index.js:41-43
afterEnsure(c, k) ==
  IF task[c].dir = imageFolderPath
  THEN goto(c, [task[c] EXCEPT !.pc = "access", !.dir = postedFolderPath], k)
  ELSE goto(c, [task[c] EXCEPT !.pc = "readdir", !.dir = "none"], k)

At(c, pcv) == proc = "running" /\ task[c].pc = pcv

\* ------------------------------------------------------------------ Init
Listings ==
  UNION { { s \in [1..n -> Names] : \A i, j \in 1..n : i # j => s[i] # s[j] }
          : n \in 0..MaxInitFiles }

Init ==
  /\ imageFiles = <<>>
  /\ currentIndex = 0
  /\ dirs \in SUBSET {imageFolderPath, postedFolderPath}
  /\ srcDir \in Listings
  /\ (imageFolderPath \notin dirs => srcDir = <<>>)
  /\ arcDir = {}
  \* start() has been called and waits in loadImageFiles (index.js:138, 41, 27)
  /\ task = [c \in Slots |->
               IF c = 1
               THEN [IdleTask EXCEPT !.pc = "access", !.mode = "start",
                                     !.dir = imageFolderPath]
               ELSE IdleTask]
  /\ timerArmed = FALSE
  /\ proc = "running"
  /\ exitCode = -1
  /\ ev = NoEv("start")
  /\ lateAdds = {}
  /\ everCandidate = (\E f \in Range(srcDir) : HasImageExtension(f))
  /\ adds = 0
  /\ failed = {}
  /\ lastListing = <<>>
  /\ archivedSince = {}

\* --------------------------------------------------------------- actions
\* the interval timer fires (index.js:144): postNextImage is called whether
\* or not earlier invocations are still pending
Tick(c) ==
  /\ proc = "running"
  /\ timerArmed
  /\ tickGuard(InFlight)
  /\ task[c].pc = "idle"
  /\ \A d \in Slots : d < c => task[d].pc # "idle"
  /\ beginCycle(c, imageFiles, "tick", "tick")
  /\ UNCHANGED fsVars

\* fs.access(directory) succeeds (index.js:27)
AccessOk(c) ==
  /\ At(c, "access")
  /\ task[c].dir \in dirs
  /\ afterEnsure(c, "access_ok")
  /\ UNCHANGED fsVars

\* fs.access fails with ENOENT: fs.mkdir is requested (index.js:29-31)
AccessENOENT(c) ==
  /\ At(c, "access")
  /\ task[c].dir \notin dirs
  /\ goto(c, [task[c] EXCEPT !.pc = "mkdir"], "access_enoent")
  /\ UNCHANGED fsVars

\* fs.access fails with another code: rethrown (index.js:33)
AccessErr(c) ==
  /\ At(c, "access")
  /\ loadFail(c, "access_err")
  /\ UNCHANGED fsVars

\* fs.mkdir succeeds (index.js:31)
MkdirOk(c) ==
  /\ At(c, "mkdir")
  /\ dirs' = dirs \cup {task[c].dir}
  /\ afterEnsure(c, "mkdir_ok")
  /\ UNCHANGED <<srcDir, arcDir, everCandidate, adds>>

\* fs.mkdir fails: the error leaves ensureDirectoryExists (index.js:31)
MkdirErr(c) ==
  /\ At(c, "mkdir")
  /\ loadFail(c, "mkdir_err")
  /\ UNCHANGED fsVars

\* fs.readdir succeeds: the queue is replaced (index.js:43-46)
ReaddirOk(c) ==
  /\ At(c, "readdir")
  /\ imageFolderPath \in dirs
  /\ afterLoad(c, filterImages(srcDir), "readdir_ok")
  /\ UNCHANGED fsVars

\* fs.readdir fails (index.js:43, 47-49)
ReaddirErr(c) ==
  /\ At(c, "readdir")
  /\ loadFail(c, "readdir_err")
  /\ UNCHANGED fsVars

\* fs.readFile succeeds: the upload is requested (index.js:67-77)
ReadFileOk(c) ==
  /\ At(c, "readFile")
  /\ basename(task[c].imagePath) \in Range(srcDir) \ Dirs
  /\ goto(c, [task[c] EXCEPT !.pc = "upload", !.ok = @ \cup {"read"},
                               !.uploads = @ + 1], "read_ok")
  /\ UNCHANGED fsVars

\* fs.readFile fails (index.js:70-73), then index.js:123-131
ReadFileErr(c) ==
  /\ At(c, "readFile")
  /\ IF afterReadError = "return"
     THEN postFail(c, "read", "readfail", "read_err")
     ELSE goto(c, [task[c] EXCEPT !.pc = "upload", !.uploads = @ + 1], "read_err")
  /\ UNCHANGED fsVars

\* POST /api/v1/media answers 2xx (index.js:77-88).  body: "id" the data has
\* an id; "noid" the data has none, mediaId is undefined; "null" the data is
\* null, reading .id throws a TypeError that the catch at 99 swallows
UploadOk(c, body) ==
  /\ At(c, "upload")
  /\ IF body = "null"
     THEN postFail(c, "post", "idfail", "upload_null")  \* the upload itself succeeded
     ELSE goto(c, [task[c] EXCEPT !.pc = "status",
                                  !.mediaId = IF body = "id" THEN "id" ELSE "undefined",
                                  !.ok = @ \cup {"upload"},
                                  !.posts = @ + 1],
               "upload_ok")
  /\ UNCHANGED fsVars

\* POST /api/v1/media fails: network error or non-2xx (index.js:99-105)
UploadErr(c) ==
  /\ At(c, "upload")
  /\ postFail(c, "post", "uploadfail", "upload_err")
  /\ UNCHANGED fsVars

\* POST /api/v1/statuses answers 2xx: the move is requested (index.js:88-98, 56)
StatusOk(c) ==
  /\ At(c, "status")
  /\ goto(c, [task[c] EXCEPT !.pc = "rename", !.ok = @ \cup {"post"},
                               !.moves = @ + 1], "status_ok")
  /\ UNCHANGED fsVars

\* POST /api/v1/statuses fails (index.js:99-105)
StatusErr(c) ==
  /\ At(c, "status")
  /\ postFail(c, "post", "postfail", "status_err")
  /\ UNCHANGED fsVars

\* fs.rename succeeds (index.js:56-57), then index.js:123-131
RenameOk(c) ==
  /\ At(c, "rename")
  /\ basename(task[c].imagePath) \in Range(srcDir)
  /\ basenameDir(destinationPath(task[c].imagePath)) \in dirs
  /\ srcDir' = renameSource(srcDir, basename(task[c].imagePath))
  /\ arcDir' = arcDir \cup {basename(destinationPath(task[c].imagePath))}
  /\ finish(c, "moved", "rename_ok")
  /\ UNCHANGED <<dirs, everCandidate, adds>>

\* fs.rename fails (index.js:58-60), then index.js:123-131
RenameErr(c) ==
  /\ At(c, "rename")
  /\ IF caught("move") THEN finish(c, "movefail", "rename_err")
     ELSE postFail(c, "post", "movefail", "rename_err")
  /\ UNCHANGED fsVars

\* an external actor puts an entry into the image folder
AddFile(f) ==
  /\ proc = "running"
  /\ adds < MaxAdds
  /\ imageFolderPath \in dirs
  /\ f \notin Range(srcDir)
  /\ srcDir' = Append(srcDir, f)
  /\ adds' = adds + 1
  /\ everCandidate' = (everCandidate \/ HasImageExtension(f))
  /\ lateAdds' = IF Len(imageFiles) > 0 /\ f \notin Range(imageFiles)
                 THEN lateAdds \cup {f} ELSE lateAdds
  /\ ev' = NoEv("add")
  /\ UNCHANGED <<imageFiles, currentIndex, arcDir, dirs, task, timerArmed,
                 proc, exitCode, failed, lastListing, archivedSince>>

\* SIGINT: process.exit(0) (index.js:147-150).  The process and all it held
\* in memory (queue, cursor, pending invocations, timer) are gone; the two
\* folders stay as they are
Sigint ==
  /\ proc = "running"
  /\ proc' = "exited"
  /\ exitCode' = 0
  /\ imageFiles' = <<>>
  /\ currentIndex' = 0
  /\ task' = [c \in Slots |-> IdleTask]
  /\ timerArmed' = FALSE
  /\ lateAdds' = {}
  /\ failed' = {}
  /\ lastListing' = <<>>
  /\ archivedSince' = {}
  /\ ev' = NoEv("sigint")
  /\ UNCHANGED <<srcDir, arcDir, dirs, everCandidate, adds>>

Next ==
  \/ \E c \in Slots : Tick(c)
  \/ \E c \in Slots : AccessOk(c)
  \/ \E c \in Slots : AccessENOENT(c)
  \/ \E c \in Slots : AccessErr(c)
  \/ \E c \in Slots : MkdirOk(c)
  \/ \E c \in Slots : MkdirErr(c)
  \/ \E c \in Slots : ReaddirOk(c)
  \/ \E c \in Slots : ReaddirErr(c)
  \/ \E c \in Slots : ReadFileOk(c)
  \/ \E c \in Slots : ReadFileErr(c)
  \/ \E c \in Slots, body \in {"id", "noid", "null"} : UploadOk(c, body)
  \/ \E c \in Slots : UploadErr(c)
  \/ \E c \in Slots : StatusOk(c)
  \/ \E c \in Slots : StatusErr(c)
  \/ \E c \in Slots : RenameOk(c)
  \/ \E c \in Slots : RenameErr(c)
  \/ \E f \in Names : AddFile(f)
  \/ Sigint

Spec == Init /\ [][Next]_vars

\* The runs in which cycles do not overlap: every cycle is shorter than the
\* timer period, so a tick finds no invocation pending.
TickAlone(c) == InFlight = {} /\ Tick(c)

NextSerial ==
  \/ \E c \in Slots : TickAlone(c)
  \/ \E c \in Slots : AccessOk(c)
  \/ \E c \in Slots : AccessENOENT(c)
  \/ \E c \in Slots : AccessErr(c)
  \/ \E c \in Slots : MkdirOk(c)
  \/ \E c \in Slots : MkdirErr(c)
  \/ \E c \in Slots : ReaddirOk(c)
  \/ \E c \in Slots : ReaddirErr(c)
  \/ \E c \in Slots : ReadFileOk(c)
  \/ \E c \in Slots : ReadFileErr(c)
  \/ \E c \in Slots, body \in {"id", "noid", "null"} : UploadOk(c, body)
  \/ \E c \in Slots : UploadErr(c)
  \/ \E c \in Slots : StatusOk(c)
  \/ \E c \in Slots : StatusErr(c)
  \/ \E c \in Slots : RenameOk(c)
  \/ \E c \in Slots : RenameErr(c)
  \/ \E f \in Names : AddFile(f)
  \/ Sigint

SpecSerial == Init /\ [][NextSerial]_vars

\* The runs without an interrupt, in which the timer keeps firing and every
\* I/O request an invocation waits for is answered, with success or failure.
Step(c) ==
  \/ AccessOk(c) \/ AccessENOENT(c) \/ AccessErr(c)
  \/ MkdirOk(c) \/ MkdirErr(c)
  \/ ReaddirOk(c) \/ ReaddirErr(c)
  \/ ReadFileOk(c) \/ ReadFileErr(c)
  \/ (\E body \in {"id", "noid", "null"} : UploadOk(c, body)) \/ UploadErr(c)
  \/ StatusOk(c) \/ StatusErr(c)
  \/ RenameOk(c) \/ RenameErr(c)

\* the entry an external actor may add during such a run
LiveAdds == { FB }

NextLive ==
  \/ \E c \in Slots : Tick(c)
  \/ \E c \in Slots : AccessOk(c)
  \/ \E c \in Slots : AccessENOENT(c)
  \/ \E c \in Slots : AccessErr(c)
  \/ \E c \in Slots : MkdirOk(c)
  \/ \E c \in Slots : MkdirErr(c)
  \/ \E c \in Slots : ReaddirOk(c)
  \/ \E c \in Slots : ReaddirErr(c)
  \/ \E c \in Slots : ReadFileOk(c)
  \/ \E c \in Slots : ReadFileErr(c)
  \/ \E c \in Slots, body \in {"id", "noid", "null"} : UploadOk(c, body)
  \/ \E c \in Slots : UploadErr(c)
  \/ \E c \in Slots : StatusOk(c)
  \/ \E c \in Slots : StatusErr(c)
  \/ \E c \in Slots : RenameOk(c)
  \/ \E c \in Slots : RenameErr(c)
  \/ \E f \in LiveAdds : AddFile(f)

\* start() is called with a text file and one image in the image folder; a
\* second image may arrive later.  No directory with an image name is among
\* them: reading it can never succeed, which C19 assumes away
LiveListings == { <<FC, FA>> }

\* and the posted folder does not exist yet
LiveInit == Init /\ srcDir \in LiveListings /\ dirs = {imageFolderPath}

LiveSpec ==
  /\ LiveInit
  /\ [][NextLive]_vars
  /\ WF_vars(\E c \in Slots : Tick(c))
  /\ \A c \in Slots : WF_vars(Step(c))

TypeOK ==
  /\ currentIndex \in Nat
  /\ proc \in {"running", "exited"}
  /\ exitCode \in {-1, 0, 1}
  /\ Range(imageFiles) \subseteq Names
  /\ arcDir \subseteq Names
  /\ \A c \in Slots :
       task[c].pc \in {"idle", "access", "mkdir", "readdir", "readFile",
                       "upload", "status", "rename"}

\* ---------------------------------------------------------------- claims
Returned == ev.kind = "return"
Attempted == ev.kind = "return" /\ ev.stage # "skip"
UploadSucceeded == ev.stage \in {"idfail", "postfail", "movefail", "moved"}
PostIssued == ev.stage \in {"postfail", "movefail", "moved"}
PostSucceeded == ev.stage \in {"movefail", "moved"}

\* C1: every cycle that finds the queue non-empty (at once or after its
\* reload) has selected exactly one name, and the entry it removes from the
\* queue when it finishes is that name, whatever the publish outcome.
C1_RemovesSelected ==
  Attempted => ev.sel \in Names /\ ev.removed = ev.sel

\* The same, for a cycle during which no other invocation was pending.
C1_RemovesSelectedAlone ==
  Attempted /\ ~ev.overlap => ev.sel \in Names /\ ev.removed = ev.sel

\* C2: in every state the queue is empty or 0 <= currentIndex < its length;
\* a removal leaves the cursor at 0 when the queue became empty and at the
\* old cursor modulo the new length otherwise.
CursorInRange ==
  Len(imageFiles) = 0 \/ (0 <= currentIndex /\ currentIndex < Len(imageFiles))

C2_Cursor ==
  [][ /\ CursorInRange'
      /\ (ev'.kind = "return" /\ ev'.stage # "skip" /\ proc' = "running") =>
           currentIndex' = IF Len(imageFiles') = 0 THEN 0
                           ELSE currentIndex % Len(imageFiles') ]_vars

C2_Witness ==
  /\ Attempted
  /\ ev.overlap
  /\ Len(imageFiles) >= 2

\* C3 as stated: a selected file that was in the image folder, with the
\* upload and the post request of the cycle both successful, is in the
\* posted folder and not in the image folder when the cycle ends.
C3_Original ==
  (Returned /\ ev.present /\ PostSucceeded) =>
    (ev.sel \in arcDir /\ ev.sel \notin Range(srcDir))

\* C3 amended: the same when the move of that cycle succeeded as well.
C3_Archived ==
  (Returned /\ ev.present /\ ev.stage = "moved") =>
    (ev.sel \in arcDir /\ ev.sel \notin Range(srcDir))

C3_Witness ==
  Returned /\ ev.present /\ ev.stage = "moved" /\ ev.sel = FB

\* C4 as stated: after a successful scan the queue is the listing restricted
\* to the entries with extension jpg, jpeg, png or gif (any case), in listing
\* order, and no subdirectory is in it.
C4_Original ==
  ev.io = "readdir_ok" =>
    /\ imageFiles = SelectSeq(srcDir, HasImageExtension)
    /\ Range(imageFiles) \cap Dirs = {}

\* C4 amended: the queue is the listing restricted to the entries, regular
\* files or subdirectories, whose name has such an extension; a subdirectory
\* is excluded when its name has none.
C4_Filtered ==
  ev.io = "readdir_ok" =>
    /\ imageFiles = SelectSeq(srcDir, HasImageExtension)
    /\ \A d \in Dirs : ~HasImageExtension(d) => d \notin Range(imageFiles)

C4_Witness ==
  /\ ev.io = "readdir_ok"
  /\ FB \in Range(imageFiles)
  /\ Range(srcDir) \ Range(imageFiles) # {}
  /\ Len(imageFiles) >= 2

\* C5: when the upload request of a cycle fails, the cycle issues no post
\* request and moves nothing, the file stays in the image folder, no error
\* leaves the cycle, and the attempted entry is removed from the queue.
C5_UploadFailure ==
  (Returned /\ ev.stage = "uploadfail") =>
    /\ ~PostIssued
    /\ proc = "running"
    /\ (ev.present => ev.sel \in Range(srcDir))
    /\ ev.removed = ev.sel

\* C6: while the image folder has never held a name the filter keeps, the
\* queue stays empty and the cursor 0, no invocation reaches a file read,
\* upload, post or move, every finished cycle is a skip, and the process
\* has not ended on an error.
C6_EmptyCase ==
  ~everCandidate =>
    /\ imageFiles = <<>>
    /\ currentIndex = 0
    /\ \A c \in Slots : task[c].pc \in {"idle", "access", "mkdir", "readdir"}
    /\ (Returned => ev.stage = "skip")
    /\ (proc = "exited" => exitCode = 0)

C6_Witness ==
  /\ ~everCandidate
  /\ Returned /\ ev.stage = "skip" /\ ev.mode = "tick" /\ ev.io = "readdir_ok"
  /\ srcDir # <<>>
  /\ InFlight # {}

\* C7: no failure of a directory check or creation, listing, file read,
\* upload, upload response, post or move ends the process or leaves the
\* cycle: the cycle goes on or returns, the timer is armed once a cycle has
\* returned, and the process exits only on SIGINT, with status 0.
FailureEvents ==
  {"access_err", "mkdir_err", "readdir_err", "read_err", "upload_null",
   "upload_err", "status_err", "rename_err"}

C7_NoErrorEscapes ==
  /\ (proc = "exited" => exitCode = 0 /\ ev.io = "sigint")
  /\ (ev.io \in FailureEvents => proc = "running")
  /\ (ev.io \in FailureEvents \ {"access_err", "mkdir_err", "readdir_err"} => Returned)
  /\ (Returned => timerArmed)

C7_Witness ==
  /\ ev.io = "readdir_err"
  /\ proc = "running"
  /\ timerArmed
  /\ Returned

\* C8: start() runs the scan, then the first cycle, then arms the timer:
\* while the startup scan is pending no cycle has begun and the queue is
\* untouched, while the first cycle is pending the timer is not armed, and
\* timer cycles exist only once the timer is armed.
C8_StartupOrder ==
  /\ \A c \in Slots : task[c].mode = "start" =>
        /\ imageFiles = <<>>
        /\ ~timerArmed
        /\ \A d \in Slots \ {c} : task[d].pc = "idle"
        /\ task[c].pc \in {"access", "mkdir", "readdir"}
  /\ \A c \in Slots : task[c].mode = "first" =>
        /\ ~timerArmed
        /\ \A d \in Slots \ {c} : task[d].pc = "idle"
  /\ \A c \in Slots : task[c].mode = "tick" => timerArmed
  /\ (timerArmed => \A c \in Slots : task[c].mode \in {"none", "tick"})

C8_Witness ==
  timerArmed /\ Returned /\ ev.mode = "first" /\ ev.stage = "moved"

\* C9: a name added to the image folder while the queue is non-empty is not
\* in the queue until the queue has been drained (and a later cycle has
\* scanned again).
C9_LateAddsWait ==
  lateAdds \cap Range(imageFiles) = {}

\* C10: when the upload succeeded but its response carries no media id, no
\* post request is issued and the file is not archived.
C10_NoIdNoPost ==
  /\ \A c \in Slots :
       task[c].mediaId = "undefined" => task[c].pc \notin {"status", "rename"}
  /\ (Returned /\ ev.mediaId = "undefined" => ~PostIssued)


\* C11: within every publish attempt the upload is requested only after the
\* file read succeeded, the post only after the upload succeeded, and the
\* move only after the post succeeded; a failed read ends the attempt with
\* no upload.
Gated(r) ==
  /\ (r.uploads > 0 => "read" \in r.ok)
  /\ (r.posts > 0 => "upload" \in r.ok)
  /\ (r.moves > 0 => "post" \in r.ok)

C11_Gated ==
  /\ \A c \in Slots : Gated(task[c])
  /\ (Returned => Gated(ev))
  /\ (Returned /\ ev.stage = "readfail" => ev.uploads = 0 /\ ev.posts = 0 /\ ev.moves = 0)
  /\ (ev.io = "read_err" => Returned /\ ev.stage = "readfail")

C11_Witness ==
  /\ Returned /\ ev.stage = "readfail" /\ ev.present
  /\ \E c \in Slots : task[c].pc = "rename" /\ task[c].ok = {"read", "upload", "post"}


\* C12: no step is retried: a cycle issues at most one upload and at most one
\* post request, and a name whose attempt failed is not selected again
\* before the queue has been emptied and scanned again.
C12_NoRetry ==
  /\ \A c \in Slots : task[c].uploads <= 1 /\ task[c].posts <= 1
  /\ (Returned => ev.uploads <= 1 /\ ev.posts <= 1)
  /\ \A c \in Slots : ~task[c].reattempt


\* C13: when the move fails after a successful post, the cycle still returns
\* without error and removes the entry from the queue, the file remains in
\* the image folder, and the next successful scan puts it in the queue again.
C13_MoveFailure ==
  /\ (Returned /\ ev.stage = "movefail") =>
        /\ proc = "running"
        /\ ev.removed = ev.sel
        /\ ev.sel \in Range(srcDir)
  /\ (ev.io = "readdir_ok") =>
        \A f \in Range(srcDir) : HasImageExtension(f) => f \in Range(imageFiles)


\* C14: a timer tick starts a new cycle whether or not an earlier one has
\* finished: while the timer is armed a tick can fire with invocations
\* pending (up to the bound on pending invocations), so two cycles can be in
\* flight and their queue mutations interleave.
C14_TickNotGuarded ==
  (proc = "running" /\ timerArmed /\ InFlight # Slots) =>
    ENABLED (\E c \in Slots : Tick(c))

\* a cycle returns while another is pending, having removed an entry other
\* than the one it selected
C14_Witness ==
  /\ Attempted
  /\ ev.overlap
  /\ ev.removed # ev.sel
  /\ ev.removed # None
  /\ InFlight # {}


\* C15: the queue never holds a name twice, and whenever no cycle is in
\* flight every queue entry was in the listing of the most recent successful
\* scan and has not been archived by the bot since.
NoDuplicates(q) == \A i, j \in 1..Len(q) : i # j => q[i] # q[j]

C15_QueueEntries ==
  /\ NoDuplicates(imageFiles)
  /\ (proc = "running" /\ InFlight = {}) =>
        \A f \in Range(imageFiles) :
          f \in Range(lastListing) /\ f \notin archivedSince


\* C16: the cursor currentIndex is 0 in every reachable state, whatever the
\* interleaving of cycles: every removal resets it to 0, or to 0 modulo the
\* new length, and nothing else writes it.
C16_CursorZero == currentIndex = 0

\* the case of C16: a removal that left at least one entry in the queue,
\* where the cursor is taken modulo the new length.
C16_Witness ==
  /\ Attempted /\ ev.removed # None /\ imageFiles # <<>> /\ currentIndex = 0


\* C17: when cycles do not overlap (SpecSerial), the queue is always what
\* remains, in listing order, of the files the most recent scan loaded; the
\* file a cycle has selected is the first of them; a cycle that attempted a
\* publish removes exactly that first entry, so the length drops by one; a
\* scan happens only on an empty queue; and the queue grows by a scan only.
IsSuffix(s, t) ==
  /\ Len(s) <= Len(t)
  /\ s = SubSeq(t, Len(t) - Len(s) + 1, Len(t))

Loaded == SelectSeq(lastListing, HasImageExtension)

Selecting == { c \in Slots : task[c].pc \in {"readFile", "upload", "status", "rename"} }

C17_InOrderOnce ==
  [][ /\ IsSuffix(imageFiles', Loaded')
      /\ NoDuplicates(imageFiles')
      /\ \A c \in Selecting' :
            /\ imageFiles' # <<>>
            /\ task'[c].imagePath = pathJoin(imageFolderPath, Head(imageFiles'))
      /\ (ev'.kind = "return" /\ ev'.stage # "skip" /\ proc' = "running") =>
            /\ imageFiles # <<>>
            /\ ev'.sel = Head(imageFiles)
            /\ ev'.removed = ev'.sel
            /\ imageFiles' = Tail(imageFiles)
      /\ (ev'.io = "readdir_ok") => imageFiles = <<>>
      /\ (Len(imageFiles') > Len(imageFiles)) => ev'.io = "readdir_ok" ]_vars

\* the case of C17: the second file of a scan of two has just been attempted
\* and removed, after the first, and the queue is exhausted.
C17_Witness ==
  /\ Attempted /\ ev.removed = ev.sel
  /\ Len(Loaded) >= 2
  /\ ev.sel = Loaded[2]
  /\ imageFiles = <<>>


\* C18: a step in which a scan fails (the directory check, the directory
\* creation or the listing raises) leaves the queue and the cursor as they
\* were; the queue changes only by a successful listing, by the removal at
\* the end of a publish attempt, or by the end of the process.
ScanFailures == {"access_err", "mkdir_err", "readdir_err"}

C18_FailedScanKeepsQueue ==
  [][ /\ (ev'.io \in ScanFailures) =>
            imageFiles' = imageFiles /\ currentIndex' = currentIndex
      /\ (imageFiles' # imageFiles) =>
            \/ ev'.io = "readdir_ok"
            \/ ev'.kind = "return" /\ ev'.stage # "skip"
            \/ proc' = "exited" ]_vars

\* the case of C18: a scan has just failed while the queue, filled meanwhile
\* by another invocation, holds entries.
C18_Witness ==
  /\ ev.io \in ScanFailures /\ imageFiles # <<>> /\ proc = "running"


\* C19: in a run without interrupt where the timer keeps firing and requests
\* are answered (LiveSpec), if no kind of operation (scan, file read, upload,
\* post, move) keeps failing without ever succeeding again, every regular
\* file with an image extension that is in the image folder is eventually in
\* the posted folder, overlapping cycles and failed attempts included.
KeepsSucceeding(errs, ok) == ([]<>(ev.io \in errs)) => ([]<>(ev.io = ok))

EverythingEventuallySucceeds ==
  /\ KeepsSucceeding(ScanFailures, "readdir_ok")
  /\ KeepsSucceeding({"read_err"}, "read_ok")
  /\ KeepsSucceeding({"upload_err", "upload_null"}, "upload_ok")
  /\ KeepsSucceeding({"status_err"}, "status_ok")
  /\ KeepsSucceeding({"rename_err"}, "rename_ok")

C19_Liveness ==
  EverythingEventuallySucceeds =>
    \A f \in Names \ Dirs :
      (f \in Range(srcDir) /\ HasImageExtension(f)) ~> (f \in arcDir)

\* the case of C19: a file is archived by a cycle that overlapped another
\* and whose removal hit a different entry.
C19_Witness ==
  /\ Returned /\ ev.stage = "moved" /\ ev.overlap
  /\ ev.sel \in arcDir /\ ev.removed # ev.sel

====
